---- MODULE Spec2Model ----
(***************************************************************************)
(* Model of the per-caller log manager (src/ai_call_logger.py, CallLogger) *)
(* and of the chat-completion relay with its three shared log sinks        *)
(* (src/apiChatCompletion.py).                                             *)
(*                                                                         *)
(* Text is modelled as a sequence of tokens: a caller number is a sequence *)
(* of characters, a log line is the sequence of its parts (timestamp,      *)
(* elapsed-time prefix, message), a streamed fragment is a sequence of     *)
(* characters.  A file is an inode holding a sequence of lines; a file     *)
(* name maps to an inode or to 0 when the name does not exist.  An open    *)
(* handle stays bound to its inode when the name is unlinked.              *)
(***************************************************************************)
EXTENDS Integers, Sequences, FiniteSets, TLC

(***************************************************************************)
(* Bounds of the model.                                                    *)
(***************************************************************************)
MaxOps == 4        \* calls and external deletions in one behaviour
MaxFaultOps == 3   \* the same, in the behaviours where I/O steps may fail
MaxFaults == 2     \* I/O steps that fail inside one call
MaxFaulty == 1     \* calls in which an I/O step fails
MaxFrags == 3      \* fragments the service delivers in one behaviour
MaxDropped == 1    \* sink writes that fail in one behaviour
MaxWriters == 3    \* sink write coroutines started in one behaviour
MaxHandleCalls == 3 \* cache calls followed statement by statement

VARIABLES
  file_handles,  \* CallLogger.file_handles: insertion-ordered dict, as a sequence
                 \* of [key, ino, buf, closed]
  dir,           \* the log directory: file name -> inode number, 0 when absent
  inodes,        \* inode number -> the lines the file holds
  hist,          \* ghost: the append_log / log_event calls made, in call order
  nfaulty,       \* ghost: calls in which an I/O step failed
  last,          \* ghost: the last call and what it observed
  deleted,       \* ghost: the file names removed from outside so far
  nops,          \* ghost: calls and external deletions made so far
  call,          \* the generation calls: per call, its position and local state
  tasks,         \* the event loop's queue of background tasks (create_task)
  turn_log,      \* the lines of ai_turns.jsonl
  chunk_log,     \* the lines of ai_chunks.log
  success_log,   \* the lines of success_logs_openai.txt
  dropped,       \* ghost: the sink lines whose write failed
  nrecv,         \* ghost: fragments the service has delivered so far
  locks,         \* _turn_lock, _chunk_lock, _success_lock: the holder, 0 when free
  writers,       \* the _append_*_log coroutines started: per coroutine, sink and position
  sink_files,    \* per sink file, the parts of lines written, each with its writer
  threads,       \* the requests using the handle cache: per request, its call and position
  running,       \* the number of cache calls begun and not yet returned
  nopen,         \* ghost: per caller number, the handles opened and not closed
  ncalls,        \* ghost: cache calls begun so far
  startup        \* per log directory: the directory, the probe file, the CallLogger
                 \* constructed on it

logvars == <<file_handles, dir, inodes, hist, nfaulty, last, deleted, nops>>
logghosts == <<hist, nfaulty, last, deleted, nops>>
relayvars == <<call, tasks, turn_log, chunk_log, success_log, dropped, nrecv>>
sinkvars == <<locks, writers, sink_files>>
handlevars == <<threads, running, nopen, ncalls>>
finevars == <<locks, writers, sink_files, threads, running, nopen, ncalls, startup>>
vars == <<file_handles, dir, inodes, hist, nfaulty, last, deleted, nops,
          call, tasks, turn_log, chunk_log, success_log, dropped, nrecv,
          locks, writers, sink_files, threads, running, nopen, ncalls, startup>>

(***************************************************************************)
(* Inputs.                                                                 *)
(***************************************************************************)
Keys == { <<"+", "1">>, <<"1">>, <<"2">> }

\* The message of the i-th logging call.  The logger never inspects a
\* message, so distinct calls carry distinct messages.
Msg(i) == ToString(i)

\* The I/O steps of one call that can fail.
FaultPoints == {"open", "write", "flush", "fsync", "vflush", "vfsync", "ropen"}
FaultSets(points) == { F \in SUBSET points : Cardinality(F) <= MaxFaults }
NoFaults == {{}}

\* The number of calls and deletions a behaviour is followed for.
OpsBound(FS) == IF FS = NoFaults THEN MaxOps ELSE MaxFaultOps

\* The optional arguments of a call: both values where every I/O step
\* succeeds, the defaults (include_timestamp=True, global_start_time=None)
\* where steps may fail.
Stamped(FS) == IF FS = NoFaults THEN BOOLEAN ELSE {TRUE}
Timed(FS) == IF FS = NoFaults THEN BOOLEAN ELSE {FALSE}
CloseOpsBound(faults) == IF faults = {FALSE} THEN MaxOps ELSE MaxFaultOps

(***************************************************************************)
(* _get_log_filename: strip + - space ( ) from the caller number.          *)
(***************************************************************************)
StripChars == {"+", "-", " ", "(", ")"}
IsSafeChar(ch) == ch \notin StripChars
SafeNumber(caller_number) == SelectSeq(caller_number, IsSafeChar)

\* Mutant of GetLogFilename: the caller number is used as given.
GetLogFilenameRaw(caller_number) == caller_number \o <<".txt">>

GetLogFilename(caller_number) == SafeNumber(caller_number) \o <<".txt">>

Files == { GetLogFilename(k) : k \in Keys }

(***************************************************************************)
(* Log lines.                                                              *)
(***************************************************************************)
\* log_event's log_data: the message, prefixed by the elapsed time when a
\* start time is given.
LogData(message, timed) ==
  IF timed THEN <<"[elapsed]", message>> ELSE <<message>>

\* append_log's log_entry: "[timestamp] log_data\n" or "log_data\n".
FormatEntry(log_data, include_timestamp) ==
  IF include_timestamp THEN <<"[ts]">> \o log_data ELSE log_data

Contains(line, message) == \E i \in DOMAIN line : line[i] = message

(***************************************************************************)
(* The store a call works on: the handle cache and the file system.        *)
(***************************************************************************)
Cur == [file_handles |-> file_handles, dir |-> dir, inodes |-> inodes]

Has(fh, k) == \E i \in DOMAIN fh : fh[i].key = k
Idx(fh, k) == CHOOSE i \in DOMAIN fh : fh[i].key = k
Handle(S, k) == S.file_handles[Idx(S.file_handles, k)]
Remove(fh, k) == SelectSeq(fh, LAMBDA h : h.key # k)

Exists(S, filename) == S.dir[filename] # 0
Content(S, filename) == S.inodes[S.dir[filename]]
GetSize(S, filename) == Len(Content(S, filename))

\* Mutant of OpenAppend: opens with 'w', which empties an existing file.
OpenTruncate(S, filename) ==
  IF Exists(S, filename) THEN [S EXCEPT !.inodes[S.dir[filename]] = <<>>]
  ELSE [S EXCEPT !.inodes = Append(@, <<>>),
                 !.dir[filename] = Len(S.inodes) + 1]

\* open(filename, 'a'): creates the file when the name does not exist.
OpenAppend(S, filename) ==
  IF Exists(S, filename) THEN S
  ELSE [S EXCEPT !.inodes = Append(@, <<>>),
                 !.dir[filename] = Len(S.inodes) + 1]

\* _get_file_handle: the cache is looked up by the caller number as given.
GetFileHandle(S, k, F) ==
  IF Has(S.file_handles, k) THEN [S |-> S, exc |-> FALSE]
  ELSE IF "open" \in F THEN [S |-> S, exc |-> TRUE]
  ELSE LET S1 == OpenAppend(S, GetLogFilename(k))
           h == [key |-> k, ino |-> S1.dir[GetLogFilename(k)],
                 buf |-> <<>>, closed |-> FALSE]
       IN [S |-> [S1 EXCEPT !.file_handles = Append(@, h)], exc |-> FALSE]

\* file_handle.write(log_entry): into the handle's buffer.
HandleWrite(S, k, entry, fault) ==
  LET i == Idx(S.file_handles, k)
  IN IF S.file_handles[i].closed \/ fault THEN [S |-> S, exc |-> TRUE]
     ELSE [S |-> [S EXCEPT !.file_handles[i].buf = Append(@, entry)],
           exc |-> FALSE]

\* file_handle.flush(): the buffer goes to the handle's inode, at its end.
HandleFlush(S, k, fault) ==
  LET i == Idx(S.file_handles, k)
      h == S.file_handles[i]
  IN IF h.closed \/ fault THEN [S |-> S, exc |-> TRUE]
     ELSE [S |-> [S EXCEPT !.inodes[h.ino] = @ \o h.buf,
                           !.file_handles[i].buf = <<>>],
           exc |-> FALSE]

\* _recreate_log_entry: opens the file by name, bypassing the cache, and
\* writes a timestamped line; every failure is swallowed.  (A failing
\* os.fsync comes after the write and is swallowed with it.)
RecreateLogEntry(S, k, log_data, F) ==
  IF "ropen" \in F THEN S
  ELSE LET f == GetLogFilename(k)
           S1 == OpenAppend(S, f)
       IN [S1 EXCEPT !.inodes[S1.dir[f]] = Append(@, FormatEntry(log_data, TRUE))]

\* The try block of append_log, lines 89-104: get the handle, write, flush,
\* fsync.  A failing fsync is passed by the inner bare except of line 103.
AppendTry(S, k, log_data, include_timestamp, F) ==
  LET r1 == GetFileHandle(S, k, F)
      r2 == IF r1.exc THEN r1
            ELSE HandleWrite(r1.S, k, FormatEntry(log_data, include_timestamp),
                             "write" \in F)
  IN IF r2.exc THEN r2 ELSE HandleFlush(r2.S, k, "flush" \in F)

\* Mutant of AppendLog: no handler around the write, a failure is raised.
AppendLogUnguarded(S, k, log_data, include_timestamp, F) ==
  LET r == AppendTry(S, k, log_data, include_timestamp, F)
  IN [S |-> r.S, recreates |-> 0, exc |-> r.exc]

\* Mutant of AppendLog: a failing fsync is not passed but handled as a failed
\* write.
AppendLogFsyncHandled(S, k, log_data, include_timestamp, F) ==
  LET r == AppendTry(S, k, log_data, include_timestamp, F)
  IN IF r.exc \/ "fsync" \in F
     THEN [S |-> RecreateLogEntry(r.S, k, log_data, F), recreates |-> 1,
           exc |-> FALSE]
     ELSE [S |-> r.S, recreates |-> 0, exc |-> FALSE]

\* append_log: on any failure of the try block recreate the entry (lines
\* 106-113); nothing is raised.  Yields the store, the number of recreations
\* attempted and whether the call raised.
AppendLog(S, k, log_data, include_timestamp, F) ==
  LET r == AppendTry(S, k, log_data, include_timestamp, F)
  IN IF r.exc
     THEN [S |-> RecreateLogEntry(r.S, k, log_data, F), recreates |-> 1,
           exc |-> FALSE]
     ELSE [S |-> r.S, recreates |-> 0, exc |-> FALSE]

\* Mutant of VerifyLogWritten: reports success without looking at the file.
VerifyNoRecreate(S, k, message, F) ==
  [S |-> S, recreates |-> 0, exc |-> FALSE]

\* Mutant of VerifyLogWritten: recreates the entry whatever the file holds.
VerifyAlwaysRecreate(S, k, message, F) ==
  [S |-> RecreateLogEntry(S, k, <<message>>, F), recreates |-> 1, exc |-> FALSE]

\* Lines 171-174 of _verify_log_written: flush and fsync the cached handle.
VerifyFlush(S, k, F) ==
  IF Has(S.file_handles, k)
  THEN LET r == HandleFlush(S, k, "vflush" \in F)
       IN IF r.exc THEN r ELSE [S |-> r.S, exc |-> "vfsync" \in F]
  ELSE [S |-> S, exc |-> FALSE]

\* Mutant of VerifyLogWritten: the handler of line 191 recreates the entry
\* and then goes on to the check of the file, which may recreate it again.
VerifyRetries(S, k, message, F) ==
  LET f == GetLogFilename(k)
      r1 == VerifyFlush(S, k, F)
      S2 == IF r1.exc THEN RecreateLogEntry(r1.S, k, <<message>>, F) ELSE r1.S
      n == IF r1.exc THEN 1 ELSE 0
  IN IF r1.exc \/ ~(Exists(S2, f) /\ GetSize(S2, f) > 0)
     THEN [S |-> RecreateLogEntry(S2, k, <<message>>, F), recreates |-> n + 1,
           exc |-> FALSE]
     ELSE [S |-> S2, recreates |-> n, exc |-> FALSE]

\* _verify_log_written: flush and fsync the cached handle, then recreate the
\* entry when the file is missing or empty, or when the flush or the fsync
\* raised (lines 191-198); nothing is raised.
VerifyLogWritten(S, k, message, F) ==
  LET f == GetLogFilename(k)
      r1 == VerifyFlush(S, k, F)
  IN IF r1.exc
     THEN [S |-> RecreateLogEntry(r1.S, k, <<message>>, F), recreates |-> 1,
           exc |-> FALSE]
     ELSE IF Exists(r1.S, f) /\ GetSize(r1.S, f) > 0
     THEN [S |-> r1.S, recreates |-> 0, exc |-> FALSE]
     ELSE [S |-> RecreateLogEntry(r1.S, k, <<message>>, F), recreates |-> 1,
           exc |-> FALSE]

\* log_event, lines 153-157: append_log with a timestamp, then
\* _verify_log_written; an exception of either ends the try block and is
\* printed, not raised.
LogEvent(S, k, message, timed, F) ==
  LET a == AppendLog(S, k, LogData(message, timed), TRUE, F)
      v == IF a.exc THEN [S |-> a.S, recreates |-> 0, exc |-> TRUE]
           ELSE VerifyLogWritten(a.S, k, message, F)
  IN [S |-> v.S, recreates |-> a.recreates + v.recreates, exc |-> FALSE]

\* close_caller_log: close the cached handle and drop it from the cache; a
\* failing close leaves the (now closed) handle in the cache.
CloseCallerLog(S, k, fault) ==
  IF ~Has(S.file_handles, k) THEN S
  ELSE LET i == Idx(S.file_handles, k)
           h == S.file_handles[i]
       IN IF h.closed THEN [S EXCEPT !.file_handles = Remove(@, k)]
          ELSE IF fault
          THEN [S EXCEPT !.file_handles[i].closed = TRUE,
                         !.file_handles[i].buf = <<>>]
          ELSE [S EXCEPT !.inodes[h.ino] = @ \o h.buf,
                         !.file_handles = Remove(@, k)]

\* close_all_logs: close_caller_log for every cached key, in cache order.
RECURSIVE CloseEach(_, _, _)
CloseEach(S, ks, FK) ==
  IF ks = <<>> THEN S
  ELSE CloseEach(CloseCallerLog(S, Head(ks), Head(ks) \in FK), Tail(ks), FK)

CloseAllLogs(S, FK) ==
  CloseEach(S, [i \in DOMAIN S.file_handles |-> S.file_handles[i].key], FK)

(***************************************************************************)
(* Actions of the log manager.  FS is the family of fault sets a call may  *)
(* meet: NoFaults when every I/O step succeeds.                            *)
(***************************************************************************)
NoCall == [op |-> "none", key |-> <<>>, msg |-> "",
           preExists |-> FALSE, preCached |-> FALSE, recreates |-> 0,
           faults |-> {}, raised |-> FALSE]

Observed(op, k, m, n) ==
  [op |-> op, key |-> k, msg |-> m,
   preExists |-> Exists(Cur, GetLogFilename(k)),
   preCached |-> Has(file_handles, k), recreates |-> n,
   faults |-> {}, raised |-> FALSE]

Faulty(F) ==
  /\ F # {} => nfaulty < MaxFaulty
  /\ nfaulty' = IF F = {} THEN nfaulty ELSE nfaulty + 1

Store(S) ==
  /\ file_handles' = S.file_handles
  /\ dir' = S.dir
  /\ inodes' = S.inodes

LogInit ==
  /\ file_handles = <<>>
  /\ dir = [f \in Files |-> 0]
  /\ inodes = <<>>
  /\ hist = <<>>
  /\ nfaulty = 0
  /\ last = NoCall
  /\ deleted = {}
  /\ nops = 0

AppendLogCall(FS) ==
  /\ nops < OpsBound(FS)
  /\ \E k \in Keys, ts \in Stamped(FS), F \in FS :
       LET m == Msg(Len(hist) + 1)
           r == AppendLog(Cur, k, <<m>>, ts, F)
       IN /\ Faulty(F)
          /\ Store(r.S)
          /\ hist' = Append(hist, [key |-> k, msg |-> m])
          /\ last' = [Observed("append_log", k, m, r.recreates)
                         EXCEPT !.faults = F, !.raised = r.exc]
  /\ nops' = nops + 1
  /\ UNCHANGED relayvars
  /\ UNCHANGED finevars
  /\ UNCHANGED deleted

LogEventCall(FS) ==
  /\ nops < OpsBound(FS)
  /\ \E k \in Keys, timed \in Timed(FS), F \in FS :
       LET m == Msg(Len(hist) + 1)
           r == LogEvent(Cur, k, m, timed, F)
       IN /\ Faulty(F)
          /\ Store(r.S)
          /\ hist' = Append(hist, [key |-> k, msg |-> m])
          /\ last' = [Observed("log_event", k, m, r.recreates)
                         EXCEPT !.faults = F, !.raised = r.exc]
  /\ nops' = nops + 1
  /\ UNCHANGED relayvars
  /\ UNCHANGED finevars
  /\ UNCHANGED deleted

\* _verify_log_written called on its own, for a message logged earlier.
VerifyCall(FS) ==
  /\ nops < OpsBound(FS)
  /\ \E i \in DOMAIN hist, F \in FS :
       LET r == VerifyLogWritten(Cur, hist[i].key, hist[i].msg, F)
       IN /\ Faulty(F)
          /\ Store(r.S)
          /\ last' = [Observed("verify", hist[i].key, hist[i].msg, r.recreates)
                         EXCEPT !.faults = F, !.raised = r.exc]
  /\ nops' = nops + 1
  /\ UNCHANGED relayvars
  /\ UNCHANGED finevars
  /\ UNCHANGED <<hist, deleted>>

CloseCall(faults) ==
  /\ nops < CloseOpsBound(faults)
  /\ \E k \in Keys, fault \in faults :
       /\ Faulty(IF fault /\ Has(file_handles, k) THEN {"close"} ELSE {})
       /\ Store(CloseCallerLog(Cur, k, fault))
       /\ last' = Observed("close", k, "", 0)
  /\ nops' = nops + 1
  /\ UNCHANGED relayvars
  /\ UNCHANGED finevars
  /\ UNCHANGED <<hist, deleted>>

CloseAllCall(faults) ==
  /\ nops < CloseOpsBound(faults)
  /\ \E FK \in SUBSET {file_handles[i].key : i \in DOMAIN file_handles} :
       /\ FK # {} => TRUE \in faults
       /\ Faulty(FK)
       /\ Store(CloseAllLogs(Cur, FK))
       /\ last' = [NoCall EXCEPT !.op = "close_all"]
  /\ nops' = nops + 1
  /\ UNCHANGED relayvars
  /\ UNCHANGED finevars
  /\ UNCHANGED <<hist, deleted>>

\* The environment removes a log file; open handles keep their inode.
DeleteFile ==
  /\ nops < MaxOps
  /\ \E f \in Files :
       /\ dir[f] # 0
       /\ dir' = [dir EXCEPT ![f] = 0]
       /\ deleted' = deleted \cup {f}
  /\ last' = [NoCall EXCEPT !.op = "delete"]
  /\ nops' = nops + 1
  /\ UNCHANGED relayvars
  /\ UNCHANGED finevars
  /\ UNCHANGED <<file_handles, inodes, hist, nfaulty>>

(***************************************************************************)
(* The generation calls (src/apiChatCompletion.py).                        *)
(***************************************************************************)
\* Two requests are in flight: call 1 is streamed, call 2 is not.
StreamCalls == {1}
CompletionCalls == {2}
Calls == StreamCalls \cup CompletionCalls

\* Each call comes from its own caller and carries its own message list.
UserOf(c) == IF c = 1 THEN <<"+", "1">> ELSE <<"2">>
MessagesOf(c) == <<"messages", ToString(c)>>

\* What the service sends: a completion's message.content, or a stream
\* chunk's delta.content, is a text or None.
NoContent == [hasContent |-> FALSE, content |-> <<>>]
Text(t) == [hasContent |-> TRUE, content |-> t]
Chunks == {NoContent, Text(<<>>), Text(<<"a">>), Text(<<"\n", "b">>)}
Completions == {NoContent, Text(<<"o", "k">>)}

\* `if content:` is false for None and for the empty text.
Truthy(d) == d.hasContent /\ d.content # <<>>

SENTINEL == <<"An error occurred while generating the response.">>

\* _append_chunk_log's safe_text: newlines to spaces, then strip().
RECURSIVE LStrip(_)
LStrip(t) == IF t # <<>> /\ Head(t) = " " THEN LStrip(Tail(t)) ELSE t
RECURSIVE RStrip(_)
RStrip(t) ==
  IF t # <<>> /\ t[Len(t)] = " " THEN RStrip(SubSeq(t, 1, Len(t) - 1)) ELSE t
SafeText(chunk_text) ==
  LET spaced == [i \in DOMAIN chunk_text |->
                   IF chunk_text[i] \in {"\n", "\r"} THEN " " ELSE chunk_text[i]]
  IN RStrip(LStrip(spaced))

\* The lines the three sinks write.  The field call is a ghost: it names the
\* call the line belongs to.
TurnLine(t) ==
  [call |-> t.call, user |-> UserOf(t.call), messages |-> MessagesOf(t.call),
   streaming |-> t.streaming, response |-> t.text, response_chars |-> Len(t.text)]
ChunkLine(t) ==
  [call |-> t.call, user |-> UserOf(t.call), seq |-> t.seq, text |-> SafeText(t.text)]
SuccessLine(c, streaming) ==
  [call |-> c, user |-> UserOf(c), messages |-> MessagesOf(c), streaming |-> streaming]

\* The background tasks: the arguments of _append_turn_log / _append_chunk_log.
TurnTask(c, response, streaming) ==
  [sink |-> "turn", call |-> c, seq |-> 0, text |-> response, streaming |-> streaming]
ChunkTask(c, seq, content) ==
  [sink |-> "chunk", call |-> c, seq |-> seq, text |-> content, streaming |-> TRUE]

IdleCall ==
  [pc |-> "idle", entry |-> "none", logger |-> FALSE, remote |-> "none",
   streamErr |-> FALSE, error |-> "none", value |-> NoContent,
   seq |-> 0, full |-> <<>>, received |-> <<>>, yielded |-> <<>>,
   chunks |-> <<>>, turns |-> <<>>]

\* call_logger.log_event(user_phone_number, message), every I/O step succeeding.
Log(S, c, message) == LogEvent(S, UserOf(c), message, FALSE, {}).S
LogIf(cond, S, c, message) == IF cond THEN Log(S, c, message) ELSE S

\* Mutant of OnChunk: the sequence number is advanced before it is used.
OnChunkSeqEarly(cr, d) ==
  IF Truthy(d)
  THEN [cr EXCEPT !.received = Append(@, d),
                  !.full = @ \o d.content,
                  !.chunks = Append(@, [seq |-> cr.seq + 1, text |-> d.content]),
                  !.seq = @ + 1,
                  !.yielded = Append(@, d.content),
                  !.pc = "yielded"]
  ELSE [cr EXCEPT !.received = Append(@, d)]

\* Mutant of OnChunk: the accumulator keeps the last fragment only.
OnChunkOverwrite(cr, d) ==
  IF Truthy(d)
  THEN [cr EXCEPT !.received = Append(@, d),
                  !.full = d.content,
                  !.chunks = Append(@, [seq |-> cr.seq, text |-> d.content]),
                  !.seq = @ + 1,
                  !.yielded = Append(@, d.content),
                  !.pc = "yielded"]
  ELSE [cr EXCEPT !.received = Append(@, d)]

\* get_response_stream, lines 247-257: one chunk of the service stream.
OnChunk(cr, d) ==
  IF Truthy(d)
  THEN [cr EXCEPT !.received = Append(@, d),
                  !.full = @ \o d.content,
                  !.chunks = Append(@, [seq |-> cr.seq, text |-> d.content]),
                  !.seq = @ + 1,
                  !.yielded = Append(@, d.content),
                  !.pc = "yielded"]
  ELSE [cr EXCEPT !.received = Append(@, d)]

\* get_response_stream, lines 259-268: the service stream is exhausted.
OnExhausted(cr) ==
  [cr EXCEPT !.turns = Append(@, [response |-> cr.full, streaming |-> TRUE]),
             !.pc = "completed"]

\* Mutant of OnStreamError: the error is passed on to the consumer.
OnStreamErrorRaise(cr) ==
  [cr EXCEPT !.streamErr = TRUE, !.error = "remote", !.pc = "raised"]

\* get_response_stream, lines 270-275: the service stream raised.
OnStreamError(cr) ==
  [cr EXCEPT !.streamErr = TRUE,
             !.yielded = Append(@, SENTINEL),
             !.pc = "sentinel"]

\* Mutant of OnEstablishFailed: the generator ends without a sentinel.
OnEstablishFailedSilent(cr) ==
  [cr EXCEPT !.remote = "raised", !.pc = "failed"]

\* create_stream_completion raised: it re-raises (line 222) inside the try
\* of get_response_stream, whose handler (lines 270-275) yields the sentinel.
OnEstablishFailed(cr) ==
  [cr EXCEPT !.remote = "raised",
             !.yielded = Append(@, SENTINEL),
             !.pc = "sentinel"]

\* The consumer gives up the generator: GeneratorExit is raised at the yield
\* and is no Exception, so the handler of line 270 does not run.
OnAbandon(cr) == [cr EXCEPT !.pc = "abandoned"]

\* Mutant of AwaitsStream: an abandoned generator goes on reading the stream.
AwaitsStreamDraining(cr) == cr.pc \in {"streaming", "abandoned"}

\* The positions at which the generator waits for the service stream.
AwaitsStream(cr) == cr.pc = "streaming"

RelayInit ==
  /\ call = [c \in Calls |-> IdleCall]
  /\ tasks = <<>>
  /\ turn_log = <<>>
  /\ chunk_log = <<>>
  /\ success_log = <<>>
  /\ dropped = <<>>
  /\ nrecv = 0

\* Mutant of WriteSuccess: no line is written.
WriteSuccessSkipped(c, streaming, fails) ==
  /\ success_log' = success_log
  /\ dropped' = dropped

\* A write to the success log, awaited by the call: _append_success_log.
WriteSuccess(c, streaming, fails) ==
  /\ fails => Len(dropped) < MaxDropped
  /\ success_log' = IF fails THEN success_log
                    ELSE Append(success_log, SuccessLine(c, streaming))
  /\ dropped' = IF fails
                THEN Append(dropped, [sink |-> "success", line |-> SuccessLine(c, streaming)])
                ELSE dropped

\* create_completion / get_response_content up to the request: lines 124-131.
\* Without a call logger line 128 raises, and so does the handler's line 157.
StartCompletion(c) ==
  /\ call[c].pc = "idle"
  /\ \E entry \in {"create_completion", "get_response_content"}, logger \in BOOLEAN :
       IF logger
       THEN /\ call' = [call EXCEPT ![c].entry = entry, ![c].logger = TRUE,
                                    ![c].pc = "requesting"]
            /\ Store(Log(Log(Cur, c, "completion_start"), c, "completion_params"))
       ELSE /\ call' = [call EXCEPT ![c].entry = entry, ![c].pc = "raised",
                                    ![c].error = "AttributeError"]
            /\ UNCHANGED <<file_handles, dir, inodes>>
  /\ UNCHANGED <<tasks, turn_log, chunk_log, success_log, dropped, nrecv>>
  /\ UNCHANGED logghosts
  /\ UNCHANGED finevars

\* Mutant of CompletionFails: the error is logged and turned into a value.
CompletionFailsSwallowed(c) ==
  /\ call[c].pc = "requesting"
  /\ call' = [call EXCEPT ![c].remote = "raised", ![c].pc = "returned"]
  /\ Store(Log(Cur, c, "completion_failed"))
  /\ UNCHANGED <<tasks, turn_log, chunk_log, success_log, dropped, nrecv>>
  /\ UNCHANGED logghosts
  /\ UNCHANGED finevars

\* The request fails: lines 152-159.
CompletionFails(c) ==
  /\ call[c].pc = "requesting"
  /\ call' = [call EXCEPT ![c].remote = "raised", ![c].error = "remote",
                          ![c].pc = "raised"]
  /\ Store(Log(Cur, c, "completion_failed"))
  /\ UNCHANGED <<tasks, turn_log, chunk_log, success_log, dropped, nrecv>>
  /\ UNCHANGED logghosts
  /\ UNCHANGED finevars

\* The request returns: lines 138-151, then get_response_content's lines
\* 184-190.  len() of a None content raises inside the try of line 124.
CompletionReturns(c) ==
  /\ call[c].pc = "requesting"
  /\ \E d \in Completions, fails \in BOOLEAN :
       /\ WriteSuccess(c, FALSE, fails)
       /\ IF ~d.hasContent
          THEN /\ call' = [call EXCEPT ![c].remote = "ok", ![c].error = "TypeError",
                                       ![c].pc = "raised"]
               /\ Store(Log(Log(Cur, c, "completion_done"), c, "completion_failed"))
               /\ tasks' = tasks
          ELSE /\ Store(Log(Log(Cur, c, "completion_done"), c, "response_generated"))
               /\ IF call[c].entry = "get_response_content"
                  THEN /\ call' = [call EXCEPT
                                     ![c].remote = "ok", ![c].value = d,
                                     ![c].turns = Append(@, [response |-> d.content,
                                                             streaming |-> FALSE]),
                                     ![c].pc = "returned"]
                       /\ tasks' = Append(tasks, TurnTask(c, d.content, FALSE))
                  ELSE /\ call' = [call EXCEPT ![c].remote = "ok", ![c].value = d,
                                               ![c].pc = "returned"]
                       /\ tasks' = tasks
  /\ UNCHANGED <<turn_log, chunk_log, nrecv>>
  /\ UNCHANGED logghosts
  /\ UNCHANGED finevars

\* get_response_stream is called: the generator exists and has not run.
StartStream(c) ==
  /\ call[c].pc = "idle"
  /\ \E logger \in BOOLEAN :
       call' = [call EXCEPT ![c].entry = "get_response_stream",
                            ![c].logger = logger, ![c].pc = "created"]
  /\ UNCHANGED <<file_handles, dir, inodes, tasks, turn_log, chunk_log,
                 success_log, dropped, nrecv>>
  /\ UNCHANGED logghosts
  /\ UNCHANGED finevars

\* The consumer asks for the next fragment.  The first time the generator
\* runs up to the request for the stream (lines 234-237, 204-211); after a
\* fragment it goes back to the service stream; after the sentinel it ends.
Pull(c) ==
  /\ \/ /\ call[c].pc = "created"
        /\ call' = [call EXCEPT ![c].pc = "establishing"]
        /\ Store(LogIf(call[c].logger, Cur, c, "stream_start"))
     \/ /\ call[c].pc = "yielded"
        /\ call' = [call EXCEPT ![c].pc = "streaming"]
        /\ UNCHANGED <<file_handles, dir, inodes>>
     \/ /\ call[c].pc = "sentinel"
        /\ call' = [call EXCEPT ![c].pc = "failed"]
        /\ UNCHANGED <<file_handles, dir, inodes>>
  /\ UNCHANGED <<tasks, turn_log, chunk_log, success_log, dropped, nrecv>>
  /\ UNCHANGED logghosts
  /\ UNCHANGED finevars

\* The service answers the request for a stream.
Establish(c) ==
  /\ call[c].pc = "establishing"
  /\ \/ \E fails \in BOOLEAN :
          /\ WriteSuccess(c, TRUE, fails)
          /\ call' = [call EXCEPT ![c].remote = "ok", ![c].seq = 0,
                                  ![c].full = <<>>, ![c].pc = "streaming"]
          /\ UNCHANGED <<file_handles, dir, inodes>>
     \/ /\ call' = [call EXCEPT ![c] = OnEstablishFailed(@)]
        /\ Store(LogIf(call[c].logger,
                       LogIf(call[c].logger, Cur, c, "stream_creation_failed"),
                       c, "stream_failed"))
        /\ UNCHANGED <<success_log, dropped>>
  /\ UNCHANGED <<tasks, turn_log, chunk_log, nrecv>>
  /\ UNCHANGED logghosts
  /\ UNCHANGED finevars

\* Mutant of RecvChunk: the chunk line is written before the fragment is
\* yielded, not handed to a background task.
RecvChunkAwaited(c) ==
  /\ AwaitsStream(call[c])
  /\ nrecv < MaxFrags
  /\ \E d \in Chunks :
       LET new == OnChunk(call[c], d)
       IN /\ call' = [call EXCEPT ![c] = new]
          /\ chunk_log' = IF Len(new.chunks) > Len(call[c].chunks)
                          THEN Append(chunk_log,
                                      ChunkLine(ChunkTask(c, new.chunks[Len(new.chunks)].seq,
                                                          new.chunks[Len(new.chunks)].text)))
                          ELSE chunk_log
  /\ nrecv' = nrecv + 1
  /\ UNCHANGED <<file_handles, dir, inodes, tasks, turn_log, success_log, dropped>>
  /\ UNCHANGED logghosts
  /\ UNCHANGED finevars

\* The service stream delivers a chunk.
RecvChunk(c) ==
  /\ AwaitsStream(call[c])
  /\ nrecv < MaxFrags
  /\ \E d \in Chunks :
       LET new == OnChunk(call[c], d)
       IN /\ call' = [call EXCEPT ![c] = new]
          /\ tasks' = IF Len(new.chunks) > Len(call[c].chunks)
                      THEN Append(tasks, ChunkTask(c, new.chunks[Len(new.chunks)].seq,
                                                   new.chunks[Len(new.chunks)].text))
                      ELSE tasks
  /\ nrecv' = nrecv + 1
  /\ UNCHANGED <<file_handles, dir, inodes, turn_log, chunk_log, success_log, dropped>>
  /\ UNCHANGED logghosts
  /\ UNCHANGED finevars

\* The service stream ends.
RecvEnd(c) ==
  /\ AwaitsStream(call[c])
  /\ LET new == OnExhausted(call[c])
     IN /\ call' = [call EXCEPT ![c] = new]
        /\ tasks' = IF Len(new.turns) > Len(call[c].turns)
                    THEN Append(tasks, TurnTask(c, new.turns[Len(new.turns)].response,
                                                new.turns[Len(new.turns)].streaming))
                    ELSE tasks
  /\ Store(LogIf(call[c].logger, Cur, c, "stream_done"))
  /\ UNCHANGED <<turn_log, chunk_log, success_log, dropped, nrecv>>
  /\ UNCHANGED logghosts
  /\ UNCHANGED finevars

\* The service stream raises.
RecvError(c) ==
  /\ AwaitsStream(call[c])
  /\ LET new == OnStreamError(call[c])
     IN /\ call' = [call EXCEPT ![c] = new]
        /\ tasks' = IF Len(new.turns) > Len(call[c].turns)
                    THEN Append(tasks, TurnTask(c, new.turns[Len(new.turns)].response,
                                                new.turns[Len(new.turns)].streaming))
                    ELSE tasks
  /\ Store(LogIf(call[c].logger, Cur, c, "stream_failed"))
  /\ UNCHANGED <<turn_log, chunk_log, success_log, dropped, nrecv>>
  /\ UNCHANGED logghosts
  /\ UNCHANGED finevars

\* The consumer stops reading: at a yield, or before the first fragment.
Abandon(c) ==
  /\ call[c].pc \in {"created", "yielded", "sentinel"}
  /\ call' = [call EXCEPT ![c] = OnAbandon(@)]
  /\ UNCHANGED <<file_handles, dir, inodes, tasks, turn_log, chunk_log,
                 success_log, dropped, nrecv>>
  /\ UNCHANGED logghosts
  /\ UNCHANGED finevars

\* The event loop runs the oldest background task: _append_turn_log or
\* _append_chunk_log takes its sink's lock, writes the line (a failure is
\* passed) and releases the lock, without suspending in between.
RunTask ==
  /\ tasks # <<>>
  /\ \E fails \in BOOLEAN :
       LET t == Head(tasks)
           line == IF t.sink = "turn" THEN TurnLine(t) ELSE ChunkLine(t)
       IN /\ fails => Len(dropped) < MaxDropped
          /\ turn_log' = IF t.sink = "turn" /\ ~fails THEN Append(turn_log, line)
                         ELSE turn_log
          /\ chunk_log' = IF t.sink = "chunk" /\ ~fails THEN Append(chunk_log, line)
                          ELSE chunk_log
          /\ dropped' = IF fails THEN Append(dropped, [sink |-> t.sink, line |-> line])
                        ELSE dropped
  /\ tasks' = Tail(tasks)
  /\ UNCHANGED <<file_handles, dir, inodes, call, success_log, nrecv>>
  /\ UNCHANGED logghosts
  /\ UNCHANGED finevars

RelayNext ==
  \/ \E c \in CompletionCalls : StartCompletion(c)
  \/ \E c \in CompletionCalls : CompletionFails(c)
  \/ \E c \in CompletionCalls : CompletionReturns(c)
  \/ \E c \in StreamCalls : StartStream(c)
  \/ \E c \in StreamCalls : Pull(c)
  \/ \E c \in StreamCalls : Establish(c)
  \/ \E c \in StreamCalls : RecvChunk(c)
  \/ \E c \in StreamCalls : RecvEnd(c)
  \/ \E c \in StreamCalls : RecvError(c)
  \/ \E c \in StreamCalls : Abandon(c)
  \/ RunTask

(***************************************************************************)
(* The sink writers at the grain of their statements: _append_turn_log,   *)
(* _append_chunk_log and _append_success_log each take the lock of their   *)
(* sink (async with), open the file, write one line and leave the block.   *)
(* The coroutines are interleaved at every statement, which covers every   *)
(* schedule of the event loop.  A line is written in two parts, so that a  *)
(* line torn by another writer shows in the file.                          *)
(***************************************************************************)
Sinks == {"turn", "chunk", "success"}

\* Mutant of LockOf: one lock guards all three sinks.
LockOfShared(sink) == "turn"

\* The lock a sink's writer takes: _turn_lock, _chunk_lock, _success_lock.
LockOf(sink) == sink

SinkInit ==
  /\ locks = [l \in Sinks |-> 0]
  /\ writers = <<>>
  /\ sink_files = [s \in Sinks |-> <<>>]

\* A call starts a write coroutine: create_task(_append_turn_log(...)),
\* create_task(_append_chunk_log(...)) or await _append_success_log(...).
StartWriter ==
  /\ Len(writers) < MaxWriters
  /\ \E sink \in Sinks : writers' = Append(writers, [sink |-> sink, pc |-> "start"])
  /\ UNCHANGED <<locks, sink_files>>
  /\ UNCHANGED <<logvars, relayvars, handlevars, startup>>

\* Mutant of Acquire: the writer enters without taking the lock.
AcquireUnlocked(w) ==
  /\ writers[w].pc = "start"
  /\ writers' = [writers EXCEPT ![w].pc = "locked"]
  /\ UNCHANGED <<locks, sink_files>>
  /\ UNCHANGED <<logvars, relayvars, handlevars, startup>>

\* async with the sink's lock: entered only when the lock is free.
Acquire(w) ==
  /\ writers[w].pc = "start"
  /\ locks[LockOf(writers[w].sink)] = 0
  /\ locks' = [locks EXCEPT ![LockOf(writers[w].sink)] = w]
  /\ writers' = [writers EXCEPT ![w].pc = "locked"]
  /\ UNCHANGED sink_files
  /\ UNCHANGED <<logvars, relayvars, handlevars, startup>>

\* The line is built, the file opened and the first part written; or any of
\* this raises, which the except of the block passes.
WriteHead(w) ==
  /\ writers[w].pc = "locked"
  /\ \/ /\ sink_files' = [sink_files EXCEPT ![writers[w].sink] =
                                              Append(@, [writer |-> w, part |-> 1])]
        /\ writers' = [writers EXCEPT ![w].pc = "head"]
     \/ /\ writers' = [writers EXCEPT ![w].pc = "failed"]
        /\ UNCHANGED sink_files
  /\ UNCHANGED locks
  /\ UNCHANGED <<logvars, relayvars, handlevars, startup>>

\* The rest of the line is written and the file closed.
WriteTail(w) ==
  /\ writers[w].pc = "head"
  /\ sink_files' = [sink_files EXCEPT ![writers[w].sink] =
                                        Append(@, [writer |-> w, part |-> 2])]
  /\ writers' = [writers EXCEPT ![w].pc = "written"]
  /\ UNCHANGED locks
  /\ UNCHANGED <<logvars, relayvars, handlevars, startup>>

\* Mutant of Release: after a failed write the lock stays taken.
ReleaseOnSuccessOnly(w) ==
  /\ writers[w].pc \in {"written", "failed"}
  /\ locks' = [locks EXCEPT ![LockOf(writers[w].sink)] =
                              IF @ = w /\ writers[w].pc = "written" THEN 0 ELSE @]
  /\ writers' = [writers EXCEPT ![w].pc = "done"]
  /\ UNCHANGED sink_files
  /\ UNCHANGED <<logvars, relayvars, handlevars, startup>>

\* The async with block is left: the lock is released, also after a failure.
Release(w) ==
  /\ writers[w].pc \in {"written", "failed"}
  /\ locks' = [locks EXCEPT ![LockOf(writers[w].sink)] =
                              IF @ = w THEN 0 ELSE @]
  /\ writers' = [writers EXCEPT ![w].pc = "done"]
  /\ UNCHANGED sink_files
  /\ UNCHANGED <<logvars, relayvars, handlevars, startup>>

SinkNext ==
  \/ StartWriter
  \/ \E w \in DOMAIN writers : Acquire(w)
  \/ \E w \in DOMAIN writers : WriteHead(w)
  \/ \E w \in DOMAIN writers : WriteTail(w)
  \/ \E w \in DOMAIN writers : Release(w)

(***************************************************************************)
(* The handle cache at the grain of its statements.  Requests are          *)
(* coroutines of one event loop; log_event runs append_log in the calling  *)
(* coroutine (lines 152-157: the asyncio.to_thread path is never started)  *)
(* and neither _get_file_handle nor close_caller_log awaits, so a cache    *)
(* call begun by one request returns before another request runs.          *)
(***************************************************************************)
Requests == {1, 2}

\* What a request holds before _get_file_handle returned, and after it
\* raised, in the shape of a handle.
NoHandle == [key |-> <<>>, ino |-> 0, buf |-> <<>>, closed |-> TRUE]
RaisedKeyError == [key |-> <<"KeyError">>, ino |-> 0, buf |-> <<>>, closed |-> TRUE]

IdleThread == [pc |-> "idle", op |-> "none", key |-> <<>>, fh |-> NoHandle]

HandleInit ==
  /\ threads = [t \in Requests |-> IdleThread]
  /\ running = 0
  /\ nopen = [k \in Keys |-> 0]
  /\ ncalls = 0

\* Mutant of CanStart: the calls run in threads, which the system switches
\* between at any statement.
CanStartThreaded == TRUE

\* A request can begin a cache call when no other call is under way.
CanStart == running = 0

\* The handle as the file system sees it.
NewHandle(S, k) ==
  [key |-> k, ino |-> S.dir[GetLogFilename(k)], buf |-> <<>>, closed |-> FALSE]

\* A request calls _get_file_handle (from append_log) or close_caller_log.
HBegin(t) ==
  /\ threads[t].pc = "idle"
  /\ CanStart
  /\ ncalls < MaxHandleCalls
  /\ \E op \in {"get", "close"}, k \in Keys :
       threads' = [threads EXCEPT ![t] = [pc |-> IF op = "get" THEN "check" ELSE "closecheck",
                                          op |-> op, key |-> k, fh |-> NoHandle]]
  /\ running' = running + 1
  /\ ncalls' = ncalls + 1
  /\ UNCHANGED <<file_handles, dir, inodes, nopen>>
  /\ UNCHANGED <<logghosts, relayvars, sinkvars, startup>>

\* Line 73: if caller_number not in self.file_handles.
HCheck(t) ==
  /\ threads[t].pc = "check"
  /\ threads' = [threads EXCEPT ![t].pc =
                   IF Has(file_handles, threads[t].key) THEN "return" ELSE "open"]
  /\ UNCHANGED <<file_handles, dir, inodes, running, nopen, ncalls>>
  /\ UNCHANGED <<logghosts, relayvars, sinkvars, startup>>

\* Line 76, right-hand side: open(filename, 'a').
HOpen(t) ==
  /\ threads[t].pc = "open"
  /\ LET k == threads[t].key
         S1 == OpenAppend(Cur, GetLogFilename(k))
     IN /\ dir' = S1.dir
        /\ inodes' = S1.inodes
        /\ threads' = [threads EXCEPT ![t].pc = "store", ![t].fh = NewHandle(S1, k)]
        /\ nopen' = [nopen EXCEPT ![k] = @ + 1]
  /\ UNCHANGED <<file_handles, running, ncalls>>
  /\ UNCHANGED <<logghosts, relayvars, sinkvars, startup>>

\* Line 76, assignment: self.file_handles[caller_number] = the new handle,
\* in the place of an entry another call stored meanwhile.
HStore(t) ==
  /\ threads[t].pc = "store"
  /\ LET k == threads[t].key
     IN file_handles' = IF Has(file_handles, k)
                        THEN [file_handles EXCEPT ![Idx(file_handles, k)] = threads[t].fh]
                        ELSE Append(file_handles, threads[t].fh)
  /\ threads' = [threads EXCEPT ![t].pc = "return"]
  /\ UNCHANGED <<dir, inodes, running, nopen, ncalls>>
  /\ UNCHANGED <<logghosts, relayvars, sinkvars, startup>>

\* Line 77: return self.file_handles[caller_number]; a KeyError when the
\* entry is gone.
HReturn(t) ==
  /\ threads[t].pc = "return"
  /\ LET k == threads[t].key
     IN threads' = [threads EXCEPT ![t].pc = "idle",
                                   ![t].fh = IF Has(file_handles, k) THEN Handle(Cur, k)
                                             ELSE RaisedKeyError]
  /\ running' = running - 1
  /\ UNCHANGED <<file_handles, dir, inodes, nopen, ncalls>>
  /\ UNCHANGED <<logghosts, relayvars, sinkvars, startup>>

\* Line 237: if caller_number in self.file_handles.
HCloseCheck(t) ==
  /\ threads[t].pc = "closecheck"
  /\ IF Has(file_handles, threads[t].key)
     THEN /\ threads' = [threads EXCEPT ![t].pc = "close"]
          /\ running' = running
     ELSE /\ threads' = [threads EXCEPT ![t].pc = "idle"]
          /\ running' = running - 1
  /\ UNCHANGED <<file_handles, dir, inodes, nopen, ncalls>>
  /\ UNCHANGED <<logghosts, relayvars, sinkvars, startup>>

\* Lines 239-240: close the cached handle and delete the entry; a KeyError
\* when the entry is gone is handled by line 241.
HClose(t) ==
  /\ threads[t].pc = "close"
  /\ LET k == threads[t].key
     IN /\ Store(CloseCallerLog(Cur, k, FALSE))
        /\ nopen' = IF Has(file_handles, k) /\ ~Handle(Cur, k).closed
                    THEN [nopen EXCEPT ![k] = @ - 1] ELSE nopen
  /\ threads' = [threads EXCEPT ![t].pc = "idle"]
  /\ running' = running - 1
  /\ UNCHANGED ncalls
  /\ UNCHANGED <<logghosts, relayvars, sinkvars, startup>>

HandleNext ==
  \/ \E t \in Requests : HBegin(t)
  \/ \E t \in Requests : HCheck(t)
  \/ \E t \in Requests : HOpen(t)
  \/ \E t \in Requests : HStore(t)
  \/ \E t \in Requests : HReturn(t)
  \/ \E t \in Requests : HCloseCheck(t)
  \/ \E t \in Requests : HClose(t)

(***************************************************************************)
(* Construction: CallLogger(log_directory) runs _ensure_log_directory.     *)
(* The other parts of the model start after a construction that returned.  *)
(***************************************************************************)
LogDirectories == {"call-logs", "logs-a", "logs-b"}

\* The steps of _ensure_log_directory that can raise.
StartupFaults == SUBSET {"makedirs", "open", "write", "remove"}

\* Mutant of EnsureLogDirectory: a failing probe is reported as a warning
\* only.
EnsureLogDirectoryWarns(d, F) ==
  IF ~d.exists /\ "makedirs" \in F
  THEN [exists |-> FALSE, probe |-> FALSE, raised |-> TRUE]
  ELSE IF "open" \in F THEN [exists |-> TRUE, probe |-> d.probe, raised |-> FALSE]
  ELSE IF "write" \in F \/ "remove" \in F
  THEN [exists |-> TRUE, probe |-> TRUE, raised |-> FALSE]
  ELSE [exists |-> TRUE, probe |-> FALSE, raised |-> FALSE]

\* _ensure_log_directory on a directory d = [exists, probe]: makedirs when
\* the path does not exist, then open the probe file for writing, write to
\* it and remove it; every failure is printed and raised again.
EnsureLogDirectory(d, F) ==
  IF ~d.exists /\ "makedirs" \in F
  THEN [exists |-> FALSE, probe |-> FALSE, raised |-> TRUE]
  ELSE IF "open" \in F THEN [exists |-> TRUE, probe |-> d.probe, raised |-> TRUE]
  ELSE IF "write" \in F \/ "remove" \in F
  THEN [exists |-> TRUE, probe |-> TRUE, raised |-> TRUE]
  ELSE [exists |-> TRUE, probe |-> FALSE, raised |-> FALSE]

\* The state after the construction the rest of the model starts from.
StartedDirectory ==
  [exists |-> TRUE, probe |-> FALSE, logger |-> "ok", preExists |-> TRUE, faults |-> {}]

StartupInit ==
  startup = [d \in LogDirectories |-> StartedDirectory]

\* Before any construction: each directory exists or not, with or without
\* a probe file left by an earlier run.
FreshInit ==
  startup \in [LogDirectories ->
                { [exists |-> e, probe |-> p, logger |-> "none",
                   preExists |-> e, faults |-> {}] :
                  e \in BOOLEAN, p \in BOOLEAN } \ 
                { [exists |-> FALSE, probe |-> TRUE, logger |-> "none",
                   preExists |-> FALSE, faults |-> {}] }]

\* CallLogger(d): __init__ sets the fields and runs _ensure_log_directory;
\* what it raises leaves the caller without a logger.
Construct(d) ==
  /\ startup[d].logger = "none"
  /\ \E F \in StartupFaults :
       LET r == EnsureLogDirectory(startup[d], F)
       IN startup' = [startup EXCEPT ![d] =
                        [exists |-> r.exists, probe |-> r.probe,
                         logger |-> IF r.raised THEN "raised" ELSE "ok",
                         preExists |-> startup[d].exists, faults |-> F]]
  /\ UNCHANGED <<logvars, relayvars, sinkvars, handlevars>>

\* The environment removes a left-over probe file or an unused directory.
CleanUp(d) ==
  /\ startup[d].logger = "raised"
  /\ startup' = [startup EXCEPT ![d].probe = FALSE, ![d].logger = "none",
                                ![d].preExists = startup[d].exists, ![d].faults = {}]
  /\ UNCHANGED <<logvars, relayvars, sinkvars, handlevars>>

StartupNext ==
  \/ \E d \in LogDirectories : Construct(d)
  \/ \E d \in LogDirectories : CleanUp(d)

Init == LogInit /\ RelayInit /\ SinkInit /\ HandleInit /\ StartupInit

\* Nothing is constructed yet.
InitFresh == LogInit /\ RelayInit /\ SinkInit /\ HandleInit /\ FreshInit

SpecStartup == InitFresh /\ [][StartupNext]_vars

SpecHandles == Init /\ [][HandleNext]_vars

SpecSinks == Init /\ [][SinkNext]_vars

\* The next statement of writer w.
WriterStep(w) ==
  /\ w \in DOMAIN writers
  /\ (Acquire(w) \/ WriteHead(w) \/ WriteTail(w) \/ Release(w))

\* The event loop runs every coroutine that is ready: a writer whose next
\* statement stays enabled takes it.  (A writer waiting for a lock is woken
\* when the lock is released; no more than this is assumed.)
SinkFairness == \A w \in 1..MaxWriters : WF_vars(WriterStep(w))

SpecSinksFair == Init /\ [][SinkNext]_vars /\ SinkFairness

SpecRelay == Init /\ [][RelayNext]_vars

\* The log manager on its own, every I/O step succeeding.
LogNext ==
  \/ AppendLogCall(NoFaults)
  \/ LogEventCall(NoFaults)
  \/ VerifyCall(NoFaults)
  \/ CloseCall({FALSE})
  \/ CloseAllCall({FALSE})
  \/ DeleteFile

SpecLog == Init /\ [][LogNext]_vars

\* The log manager on its own, I/O steps failing.
LogFaultNext ==
  \/ AppendLogCall(FaultSets({"open", "write", "flush", "fsync", "ropen"}))
  \/ LogEventCall(FaultSets(FaultPoints))
  \/ VerifyCall(FaultSets({"vflush", "vfsync", "ropen"}))
  \/ CloseCall(BOOLEAN)
  \/ CloseAllCall(BOOLEAN)
  \/ DeleteFile

SpecLogFaults == Init /\ [][LogFaultNext]_vars

(***************************************************************************)
(* Claims about the log manager.                                           *)
(***************************************************************************)
Lines(f) == IF Exists(Cur, f) THEN Content(Cur, f) ELSE <<>>

\* The calls whose key names file f, the calls for key k, in call order.
CallsOnFile(f) == SelectSeq(hist, LAMBDA c : GetLogFilename(c.key) = f)
CallsFor(k) == SelectSeq(hist, LAMBDA c : c.key = k)

\* The lines of k's file that carry the message of a call for k.
IsLineFor(k, line) == \E i \in DOMAIN hist : hist[i].key = k /\ Contains(line, hist[i].msg)
LinesFor(k) == SelectSeq(Lines(GetLogFilename(k)), LAMBDA line : IsLineFor(k, line))

CountLines(f, message) ==
  Cardinality({i \in DOMAIN Lines(f) : Contains(Lines(f)[i], message)})

\* C1: as long as the file of k is not removed from outside, it holds
\* exactly one line per append_log / log_event call for k, the i-th of them
\* carrying the message of the i-th call for k, whatever calls for other
\* keys come in between; and every line of the file comes from a call for a
\* key that names this file.
C1_AppendOrder ==
  /\ \A k \in Keys :
       GetLogFilename(k) \notin deleted =>
         /\ Len(LinesFor(k)) = Len(CallsFor(k))
         /\ \A i \in DOMAIN CallsFor(k) : Contains(LinesFor(k)[i], CallsFor(k)[i].msg)
  /\ \A f \in Files :
       f \notin deleted =>
         /\ Len(Lines(f)) = Len(CallsOnFile(f))
         /\ \A i \in DOMAIN Lines(f) : Contains(Lines(f)[i], CallsOnFile(f)[i].msg)

\* Three calls, for two keys that share no file, interleaved, all on disk.
C1_Witness ==
  /\ deleted = {}
  /\ Len(hist) = 3
  /\ hist[1].key = <<"1">> /\ hist[2].key = <<"2">> /\ hist[3].key = <<"1">>
  /\ Len(Lines(GetLogFilename(<<"1">>))) = 2
  /\ Len(Lines(GetLogFilename(<<"2">>))) = 1

\* C2 (as claimed): no two open handles of the cache belong to keys with the
\* same normalized token.
C2_OneHandlePerToken ==
  \A i, j \in DOMAIN file_handles :
    (/\ i # j
     /\ ~file_handles[i].closed
     /\ ~file_handles[j].closed)
    => SafeNumber(file_handles[i].key) # SafeNumber(file_handles[j].key)

\* C3: a log_event(k, m) that finds k's handle cached and k's file gone
\* (removed since the earlier call) leaves the file in place again, holding
\* a line with m.
C3_SelfHealing ==
  (last.op = "log_event" /\ last.preCached /\ ~last.preExists) =>
    /\ Exists(Cur, GetLogFilename(last.key))
    /\ CountLines(GetLogFilename(last.key), last.msg) >= 1

C3_Witness ==
  /\ last.op = "log_event" /\ last.preCached /\ ~last.preExists
  /\ GetLogFilename(last.key) \in deleted
  /\ last.recreates = 1
  /\ CountLines(GetLogFilename(last.key), last.msg) = 1

\* C4: a _verify_log_written(k, m) step taken while k's file exists and is
\* not empty changes neither the files nor the handle cache; and after a
\* log_event(k, m) the file holds at most one line for m, exactly one when
\* the file was never removed from outside.
C4_VerifyStep ==
  (/\ nops' = nops + 1
   /\ last'.op = "verify"
   /\ Exists(Cur, GetLogFilename(last'.key))
   /\ GetSize(Cur, GetLogFilename(last'.key)) > 0)
  => (file_handles' = file_handles /\ dir' = dir /\ inodes' = inodes)

C4_OneLine ==
  last.op = "log_event" =>
    /\ CountLines(GetLogFilename(last.key), last.msg) <= 1
    /\ GetLogFilename(last.key) \notin deleted =>
         CountLines(GetLogFilename(last.key), last.msg) = 1

C4_VerifyNoOp == [][C4_VerifyStep]_vars /\ []C4_OneLine

C4_Witness ==
  /\ last.op = "verify" /\ last.preExists /\ last.recreates = 0
  /\ GetSize(Cur, GetLogFilename(last.key)) > 0
  /\ CountLines(GetLogFilename(last.key), last.msg) = 1

\* The calls made for either of two keys, in call order.
CallsForBoth(k1, k2) == SelectSeq(hist, LAMBDA c : c.key \in {k1, k2})

\* C15: two different caller numbers with the same normalized token name
\* the same file; as long as that file is not removed from outside, it holds
\* one line per append_log / log_event call for either number, in the order
\* of the calls across both numbers.
C15_CollidingKeysShareFile ==
  \A k1, k2 \in Keys :
    (k1 # k2 /\ SafeNumber(k1) = SafeNumber(k2)) =>
      /\ GetLogFilename(k1) = GetLogFilename(k2)
      /\ GetLogFilename(k1) \notin deleted =>
           /\ Len(Lines(GetLogFilename(k1))) = Len(CallsForBoth(k1, k2))
           /\ \A i \in DOMAIN CallsForBoth(k1, k2) :
                Contains(Lines(GetLogFilename(k2))[i], CallsForBoth(k1, k2)[i].msg)

\* Calls for "+1", "1", "+1": two handles are open on the one file, which
\* holds the three lines.
C15_Witness ==
  /\ Len(hist) = 3
  /\ hist[1].key = <<"+", "1">> /\ hist[2].key = <<"1">> /\ hist[3].key = <<"+", "1">>
  /\ Len(file_handles) = 2
  /\ deleted = {}
  /\ Len(Lines(GetLogFilename(<<"1">>))) = 3

\* C11: whatever I/O steps fail in it (the open of the handle, the write,
\* the flush, the fsync, the flush and fsync of the verification, the
\* recreation), an append_log, a log_event or a _verify_log_written returns
\* without raising.
C11_NothingRaised ==
  last.op \in {"append_log", "log_event", "verify"} => ~last.raised

\* The write and the recreation both fail: the line is lost, nothing raised.
C11_Witness ==
  /\ last.op = "log_event"
  /\ last.faults = {"write", "ropen"}
  /\ ~last.raised
  /\ CountLines(GetLogFilename(last.key), last.msg) = 0

\* C16 (as claimed): within one log_event the entry is recreated at most
\* once, whatever steps of the write and of the verification fail.
C16_RecreateAtMostOnce ==
  last.op = "log_event" => last.recreates <= 1

\* C17 (as claimed): a log_event in which nothing fails but os.fsync
\* recreates nothing and leaves exactly one line for its message (in a file
\* that is not removed from outside).
C17_SyncFailureSwallowed ==
  (/\ last.op = "log_event"
   /\ last.faults # {}
   /\ last.faults \subseteq {"fsync", "vfsync"}
   /\ GetLogFilename(last.key) \notin deleted)
  => /\ last.recreates = 0
     /\ CountLines(GetLogFilename(last.key), last.msg) = 1

\* C19 (as claimed): after close_caller_log(k) the cache holds no handle for
\* k, after close_all_logs the cache is empty, and the cache never holds a
\* closed handle, which a later write would go to.
C19_CloseLeavesNoHandle ==
  /\ last.op = "close" => ~Has(file_handles, last.key)
  /\ last.op = "close_all" => file_handles = <<>>
  /\ \A i \in DOMAIN file_handles : ~file_handles[i].closed

\* C21 (as claimed): every log_event(k, m) in which no I/O step fails,
\* whatever calls and external removals of k's file came before it, leaves
\* k's file in place holding a line with m when it returns.
C21_EveryEventOnDisk ==
  (last.op = "log_event" /\ last.faults = {}) =>
    /\ Exists(Cur, GetLogFilename(last.key))
    /\ CountLines(GetLogFilename(last.key), last.msg) >= 1

(***************************************************************************)
(* Claims about the generation calls.                                      *)
(***************************************************************************)
Count(log, c) == Cardinality({i \in DOMAIN log : log[i].call = c})

\* The lines of a sink that call c has produced: written, waiting in the
\* task queue, or lost to a failed write.
Pending(sink, c) ==
  Cardinality({i \in DOMAIN tasks : tasks[i].sink = sink /\ tasks[i].call = c})
Lost(sink, c) ==
  Cardinality({i \in DOMAIN dropped :
                 dropped[i].sink = sink /\ dropped[i].line.call = c})
SuccessLines(c) == Count(success_log, c) + Lost("success", c)
TurnLines(c) == Count(turn_log, c) + Pending("turn", c) + Lost("turn", c)
ChunkLines(c) == Count(chunk_log, c) + Pending("chunk", c) + Lost("chunk", c)

RECURSIVE Concat(_)
Concat(ts) == IF ts = <<>> THEN <<>> ELSE Head(ts) \o Concat(Tail(ts))

\* The texts of the non-empty chunks the service delivered, in order.
NonEmptyReceived(c) ==
  LET kept == SelectSeq(call[c].received, Truthy)
  IN [i \in DOMAIN kept |-> kept[i].content]

\* The remote service raised: at the request, at stream establishment, or
\* while the stream was read.
RemoteRaised(c) == call[c].remote = "raised" \/ call[c].streamErr

C6_FragmentsAndSeq ==
  \A c \in StreamCalls :
    LET frags == IF RemoteRaised(c)
                 THEN SubSeq(call[c].yielded, 1, Len(call[c].yielded) - 1)
                 ELSE call[c].yielded
    IN /\ frags = NonEmptyReceived(c)
       /\ Len(call[c].chunks) = Len(frags)
       /\ ChunkLines(c) = Len(frags)
       /\ call[c].seq = Len(frags)
       /\ \A i \in DOMAIN frags :
            call[c].chunks[i] = [seq |-> i - 1, text |-> frags[i]]
       /\ \A i \in DOMAIN tasks :
            (tasks[i].sink = "chunk" /\ tasks[i].call = c) =>
              frags[tasks[i].seq + 1] = tasks[i].text
       /\ \A i \in DOMAIN chunk_log :
            chunk_log[i].call = c =>
              chunk_log[i].text = SafeText(frags[chunk_log[i].seq + 1])

C6_Witness ==
  \E c \in StreamCalls :
    /\ Len(call[c].received) = 3
    /\ Truthy(call[c].received[1])
    /\ ~Truthy(call[c].received[2])
    /\ Truthy(call[c].received[3])
    /\ call[c].received[1] # call[c].received[3]
    /\ Len(call[c].yielded) = 2
    /\ call[c].chunks[2].seq = 1
    /\ Count(chunk_log, c) = 2

\* C7: a stream read to its end without error has produced exactly one turn
\* record, with streaming = true and the concatenation of the fragments
\* given to the consumer as its response.
C7_OneTurnOnExhaustion ==
  \A c \in StreamCalls :
    call[c].pc = "completed" =>
      /\ call[c].turns = <<[response |-> Concat(call[c].yielded), streaming |-> TRUE]>>
      /\ TurnLines(c) = 1
      /\ \A i \in DOMAIN tasks :
           (tasks[i].sink = "turn" /\ tasks[i].call = c) =>
             (tasks[i].streaming /\ tasks[i].text = Concat(call[c].yielded))
      /\ \A i \in DOMAIN turn_log :
           turn_log[i].call = c =>
             /\ turn_log[i].streaming
             /\ turn_log[i].response = Concat(call[c].yielded)
             /\ turn_log[i].response_chars = Len(Concat(call[c].yielded))

C7_Witness ==
  \E c \in StreamCalls :
    /\ call[c].pc = "completed"
    /\ Len(call[c].yielded) = 2
    /\ call[c].yielded[1] # call[c].yielded[2]
    /\ Count(turn_log, c) = 1

\* C8: when the service stream raises while it is read, the consumer gets
\* the fragments so far and then the sentinel, once and last; no turn record
\* is produced and nothing is raised to the consumer.  No call both produces
\* a turn record and yields the sentinel.
C8_FailedStream ==
  /\ \A c \in StreamCalls :
       call[c].streamErr =>
         /\ call[c].yielded = NonEmptyReceived(c) \o <<SENTINEL>>
         /\ call[c].turns = <<>>
         /\ TurnLines(c) = 0
         /\ call[c].error = "none"
         /\ call[c].pc \in {"sentinel", "failed", "abandoned"}
  /\ \A c \in StreamCalls :
       ~(/\ call[c].turns # <<>>
         /\ \E i \in DOMAIN call[c].yielded : call[c].yielded[i] = SENTINEL)

C8_Witness ==
  \E c \in StreamCalls :
    /\ call[c].streamErr
    /\ call[c].pc = "failed"
    /\ Len(call[c].yielded) = 3

\* C9 (as claimed): a streaming call whose stream could not be established
\* gives the consumer no fragment at all.
C9_NoSentinelOnEstablishFailure ==
  \A c \in StreamCalls :
    call[c].remote = "raised" => call[c].yielded = <<>>

\* C9 (amended): a streaming call whose stream could not be established logs
\* the failure for its key when it has a call logger, produces no success
\* line and no turn record, and gives the consumer exactly one fragment, the
\* sentinel, as for a failure while the stream is read.
C9_SentinelOnEstablishFailure ==
  \A c \in StreamCalls :
    call[c].remote = "raised" =>
      /\ call[c].yielded = <<SENTINEL>>
      /\ call[c].received = <<>>
      /\ call[c].turns = <<>>
      /\ SuccessLines(c) = 0
      /\ call[c].error = "none"
      /\ call[c].logger =>
           /\ CountLines(GetLogFilename(UserOf(c)), "stream_creation_failed") = 1
           /\ CountLines(GetLogFilename(UserOf(c)), "stream_failed") = 1

C9_Witness ==
  \E c \in StreamCalls :
    /\ call[c].remote = "raised"
    /\ call[c].logger
    /\ call[c].pc = "failed"
    /\ call[c].yielded = <<SENTINEL>>

\* C10: a call never produces more than one turn record; a stream the
\* consumer abandoned has produced none, and from then on it neither reads
\* the service stream nor does anything else.
C10_Turns ==
  \A c \in Calls :
    /\ Len(call[c].turns) <= 1
    /\ TurnLines(c) = Len(call[c].turns)
    /\ call[c].pc = "abandoned" => call[c].turns = <<>>

C10_AbandonedStays ==
  \A c \in Calls : call[c].pc = "abandoned" => call'[c] = call[c]

C10_AtMostOneTurn == []C10_Turns /\ [][C10_AbandonedStays]_vars

C10_Witness ==
  \E c \in StreamCalls :
    /\ call[c].pc = "abandoned"
    /\ Len(call[c].yielded) = 1
    /\ nrecv < MaxFrags
    /\ TurnLines(c) = 0

\* A step of the calling path of some call, and the sink lines it leaves
\* written or lost.
CallStep == call' # call
Written(sink) ==
  (IF sink = "turn" THEN Len(turn_log)
   ELSE IF sink = "chunk" THEN Len(chunk_log) ELSE Len(success_log))
  + Cardinality({i \in DOMAIN dropped : dropped[i].sink = sink})
WrittenNext(sink) ==
  (IF sink = "turn" THEN Len(turn_log')
   ELSE IF sink = "chunk" THEN Len(chunk_log') ELSE Len(success_log'))
  + Cardinality({i \in DOMAIN dropped' : dropped'[i].sink = sink})

\* C12 (as claimed): no step of a calling path performs a write to any of
\* the three sinks; every sink write is done by a background task.
C12_NoSinkWriteInCallStep ==
  CallStep => \A sink \in {"turn", "chunk", "success"} :
                WrittenNext(sink) = Written(sink)

C12_TurnChunkStep ==
  CallStep =>
    /\ WrittenNext("turn") = Written("turn")
    /\ WrittenNext("chunk") = Written("chunk")
    /\ \A c \in Calls :
         (call[c].remote # "ok" /\ call'[c].remote = "ok") <=>
           (WrittenNext("success") = Written("success") + 1 /\ call'[c] # call[c])

Inside(sink) ==
  {w \in DOMAIN writers :
     writers[w].sink = sink /\ writers[w].pc \in {"locked", "head", "written", "failed"}}

\* A sink file holds whole lines only, but for a last line being written.
WholeLines(f) ==
  \A i \in DOMAIN f :
    /\ f[i].part = 2 => (i > 1 /\ f[i - 1] = [writer |-> f[i].writer, part |-> 1])
    /\ (f[i].part = 1 /\ i < Len(f)) => f[i + 1] = [writer |-> f[i].writer, part |-> 2]

\* C13: at any time at most one writer is inside the open-write-close
\* section of a sink, and no line of a sink file is torn by another line; a
\* writer that waits to enter a sink with no writer inside can enter,
\* whatever writers are inside the other two sinks.
C13_SinksSerialized ==
  /\ \A sink \in Sinks : Cardinality(Inside(sink)) <= 1
  /\ \A sink \in Sinks : WholeLines(sink_files[sink])
  /\ \A w \in DOMAIN writers :
       (writers[w].pc = "start" /\ Inside(writers[w].sink) = {}) => ENABLED Acquire(w)

\* One writer is inside the turn log, another inside the chunk log, and a
\* third waits for the turn log.
C13_Witness ==
  /\ \E w \in Inside("turn") : writers[w].pc = "head"
  /\ Inside("chunk") # {}
  /\ \E w \in DOMAIN writers : writers[w].sink = "turn" /\ writers[w].pc = "start"

\* A writer that has the lock of its sink and has not left the block.
Holding(w) == writers[w].pc \in {"locked", "head", "written", "failed"}

\* The writer has made its write attempt: the line is in the file, or the
\* write failed and nothing of it is.
Attempted(w) == w \in DOMAIN writers /\ writers[w].pc \in {"written", "failed", "done"}
Returned(w) == w \in DOMAIN writers /\ writers[w].pc = "done"
WroteLine(w) ==
  \E i \in DOMAIN sink_files[writers[w].sink] :
    sink_files[writers[w].sink][i] = [writer |-> w, part |-> 2]

\* A lock is taken only by a writer that is inside the block of its sink.
C23_LockHeldInsideOnly ==
  \A l \in Sinks :
    locks[l] # 0 => /\ locks[l] \in DOMAIN writers
                    /\ LockOf(writers[locks[l]].sink) = l
                    /\ Holding(locks[l])

\* Leaving the block, after a write or after a failed write, frees the lock.
C23_ReleaseStep ==
  \A w \in DOMAIN writers :
    (writers[w].pc \in {"written", "failed"} /\ writers'[w].pc = "done")
      => locks'[LockOf(writers[w].sink)] = 0

\* C23: the lock of a sink is free again after every write attempt, a failed
\* one included, so under fair scheduling every started writer gets its
\* write attempt and returns without raising, whatever writes failed before.
C23_NoSinkDeadlock ==
  /\ []C23_LockHeldInsideOnly
  /\ [][C23_ReleaseStep]_vars
  /\ \A w \in 1..MaxWriters :
       (w \in DOMAIN writers) ~> (Attempted(w) /\ Returned(w))

\* The first write to a sink failed and left no line; a later writer to the
\* same sink has written its whole line and returned; the lock is free.
C23_Witness ==
  /\ Len(writers) >= 2
  /\ writers[1].sink = writers[2].sink
  /\ Returned(1) /\ ~WroteLine(1)
  /\ Returned(2) /\ WroteLine(2)
  /\ locks[LockOf(writers[1].sink)] = 0

(***************************************************************************)
(* Claims about the handle cache under concurrent requests.                *)
(***************************************************************************)
CachedOpen(k) == Has(file_handles, k) /\ ~Handle(Cur, k).closed

\* At no time two handles are open for one caller number; when no call is
\* under way every open handle is the cached one.
C14_NoDuplicateNoOrphan ==
  /\ \A k \in Keys : nopen[k] <= 1
  /\ running = 0 => \A k \in Keys : nopen[k] = IF CachedOpen(k) THEN 1 ELSE 0

\* A returning _get_file_handle gives the caller the cached, open handle.
C14_ReturnStep ==
  \A t \in Requests :
    (threads[t].pc = "return" /\ threads'[t].pc = "idle") =>
      /\ CachedOpen(threads[t].key)
      /\ threads'[t].fh = Handle(Cur, threads[t].key)

C18_CompletionErrorPropagates ==
  \A c \in CompletionCalls :
    call[c].remote = "raised" =>
      /\ call[c].pc = "raised"
      /\ call[c].error = "remote"
      /\ call[c].value = NoContent
      /\ CountLines(GetLogFilename(UserOf(c)), "completion_failed") = 1
      /\ call[c].turns = <<>>
      /\ TurnLines(c) = 0
      /\ SuccessLines(c) = 0

C18_Witness ==
  \E c \in CompletionCalls :
    /\ call[c].entry = "get_response_content"
    /\ call[c].remote = "raised"
    /\ call[c].pc = "raised"
    /\ tasks = <<>>

(***************************************************************************)
(* Claims about construction.                                              *)
(***************************************************************************)
\* The directory could not be created, or a step of the probe failed.
\* C22 (as claimed): a call made without a call logger, of either shape,
\* never ends with an error caused by the missing logger, and when it has
\* raised, the remote request had been issued and the error is its outcome.
C22_LoggerOptional ==
  \A c \in Calls :
    (call[c].pc # "idle" /\ ~call[c].logger) =>
      /\ call[c].error # "AttributeError"
      /\ call[c].pc = "raised" => call[c].remote # "none"

StartupFailed(d) ==
  \/ ~startup[d].preExists /\ "makedirs" \in startup[d].faults
  \/ startup[d].faults \cap {"open", "write", "remove"} # {}

\* C20: a construction in which the directory could not be created or the
\* write-then-delete probe failed has raised and left no logger; one in
\* which both succeeded has returned a logger, the directory exists and the
\* probe file is gone.
C20_StartupFailsFast ==
  \A d \in LogDirectories :
    startup[d].logger # "none" =>
      /\ StartupFailed(d) => startup[d].logger = "raised"
      /\ ~StartupFailed(d) =>
           /\ startup[d].logger = "ok"
           /\ startup[d].exists
           /\ ~startup[d].probe

\* One construction failed at the probe of a directory it had created,
\* another returned.
C20_Witness ==
  /\ \E d \in LogDirectories :
       /\ startup[d].logger = "raised"
       /\ ~startup[d].preExists
       /\ startup[d].exists
       /\ startup[d].faults = {"open"}
  /\ \E d \in LogDirectories :
       /\ startup[d].logger = "ok"
       /\ ~startup[d].preExists
       /\ startup[d].exists /\ ~startup[d].probe
====
